---------------------------- MODULE Spec2Model ----------------------------
(***************************************************************************)
(* Model of the UT4 incremental update packager                            *)
(* (src/src/packager/packager.go): the per-version loop of Packager.Run,   *)
(* generateUpgradePath, getVersionHashes, generateHashes and               *)
(* calculateHashDeltaOperations, over a small file system and record       *)
(* store.                                                                  *)
(*                                                                         *)
(* Strings whose characters matter (version numbers, file names, artifact  *)
(* names) are sequences of one-character strings, so that Go's string      *)
(* comparison, filepath.Ext, strings.ToLower and fmt.Sprintf are computed  *)
(* and not assumed.                                                        *)
(***************************************************************************)
EXTENDS Integers, Sequences, FiniteSets, TLC

VARIABLES
    newVersion,      \* version of the release announced by the feed (getReleaseNumber)
    newTree,         \* the extracted tree of that release (file name -> content)
    releaseDir,      \* releaseDir: installed version -> tree
    hashCache,       \* releaseDir/<version>.hashes files: version -> manifest
    workingDirExists,\* whether packager.workingDir exists
    packageTrees,    \* workingDir/<to>-package directories: to -> [files, ops]
    workArtifacts,   \* workingDir/<from>-<to>.tar.gz files: name -> archived tree
    packageDir,      \* packageDir: artifact name -> archived tree
    records,         \* rows of ut4_update_packages, in insertion order
    pc,              \* position of the process in New/Run
    runs,            \* invocations started so far (time.Now() of a run)
    result,          \* what the last invocation of Run returned
    versions,        \* Run: versions
    idx,             \* Run: position of the range loop in versions
    fromVersionHashes, \* generateUpgradePath: fromVersionHashes
    toVersionHashes,   \* generateUpgradePath: toVersionHashes
    deltaOperations,   \* generateUpgradePath: deltaOperations
    todo,            \* generateUpgradePath: keys the range loop has not visited yet
    packagePath,     \* Run: packagePath
    genErr,          \* Run: err returned by generateUpgradePath
    dFrom,           \* delta calculator on its own: first manifest
    dTo,             \* delta calculator on its own: second manifest
    dOut,            \* delta calculator on its own: the operations computed
    dHash,           \* generateDeltaHash on its own: the fingerprint returned
    dpc,             \* delta calculator on its own: position
    cSrc,            \* CopyFile on its own: the file at source
    cDest,           \* CopyFile on its own: the file at dest
    cUmask,          \* CopyFile on its own: the umask of the process
    cErr,            \* CopyFile on its own: what the call returned
    cpc              \* CopyFile on its own: position

runVars == <<versions, idx, fromVersionHashes, toVersionHashes, deltaOperations,
             todo, packagePath, genErr>>
diskVars == <<releaseDir, hashCache, workingDirExists, packageTrees, workArtifacts,
              packageDir>>
copyVars == <<cSrc, cDest, cUmask, cErr, cpc>>
deltaVars == <<dFrom, dTo, dOut, dHash, dpc, copyVars>>
vars == <<newVersion, newTree, releaseDir, hashCache, workingDirExists, packageTrees,
          workArtifacts, packageDir, records, pc, runs, result, versions, idx,
          fromVersionHashes, toVersionHashes, deltaOperations, todo, packagePath,
          genErr, dFrom, dTo, dOut, dHash, dpc, cSrc, cDest, cUmask, cErr, cpc>>

-----------------------------------------------------------------------------
(* Bounds *)

\* Invocations of the program (New followed by Run) in one behaviour.
MaxRuns == 2

-----------------------------------------------------------------------------
(* Maps (Go map[string]string) as functions with a finite domain *)

EmptyMap == [k \in {} |-> ""]

Put(m, k, v) == [x \in (DOMAIN m) \cup {k} |-> IF x = k THEN v ELSE m[x]]

Restrict(m, S) == [x \in S |-> m[x]]

\* All the orders in which a range loop may visit the keys S.
Orders(S) == {o \in [1..Cardinality(S) -> S] : \A i, j \in DOMAIN o : o[i] = o[j] => i = j}

-----------------------------------------------------------------------------
(* Strings *)

\* Byte value of the characters used in names.
CharCode(c) ==
    CASE c = "-" -> 45 [] c = "." -> 46 [] c = "/" -> 47
      [] c = "0" -> 48 [] c = "1" -> 49 [] c = "2" -> 50 [] c = "9" -> 57
      [] c = "A" -> 65 [] c = "K" -> 75 [] c = "P" -> 80 [] c = "X" -> 88
      [] c = "a" -> 97 [] c = "d" -> 100 [] c = "g" -> 103 [] c = "k" -> 107 [] c = "o" -> 111
      [] c = "p" -> 112 [] c = "r" -> 114 [] c = "t" -> 116 [] c = "x" -> 120
      [] c = "z" -> 122

\* Go's s < t on strings: byte-wise lexicographic, a proper prefix is smaller.
RECURSIVE StrLess(_, _)
StrLess(s, t) ==
    IF t = <<>> THEN FALSE
    ELSE IF s = <<>> THEN TRUE
    ELSE IF CharCode(Head(s)) # CharCode(Head(t))
         THEN CharCode(Head(s)) < CharCode(Head(t))
         ELSE StrLess(Tail(s), Tail(t))

\* Go's s >= t on strings.
StrGE(s, t) == ~StrLess(s, t)

\* The number a decimal string denotes (strconv.Itoa read backwards).
RECURSIVE Num(_)
Num(s) == IF s = <<>> THEN 0
          ELSE Num(SubSeq(s, 1, Len(s) - 1)) * 10 + (CharCode(s[Len(s)]) - 48)

\* strings.ToLower on one character and on a string.
LowerChar(c) == IF CharCode(c) >= 65 /\ CharCode(c) <= 90
                THEN CHOOSE l \in {"a", "k", "p", "x"} : CharCode(l) = CharCode(c) + 32
                ELSE c
ToLower(s) == [i \in 1..Len(s) |-> LowerChar(s[i])]

\* filepath.Ext: the suffix beginning at the final dot of the final element of
\* the path; empty if there is no dot.
RECURSIVE ExtFrom(_, _)
ExtFrom(path, i) ==
    IF i < 1 \/ path[i] = "/" THEN <<>>
    ELSE IF path[i] = "." THEN SubSeq(path, i, Len(path))
    ELSE ExtFrom(path, i - 1)
Ext(path) == ExtFrom(path, Len(path))

\* The sorted slice of names ioutil.ReadDir gives for the set S of names.
RECURSIVE SortedNames(_)
SortedNames(S) ==
    IF S = {} THEN <<>>
    ELSE LET m == CHOOSE x \in S : \A y \in S \ {x} : StrLess(x, y)
         IN <<m>> \o SortedNames(S \ {m})

-----------------------------------------------------------------------------
(* Delta operations (unnamed/part_001) *)

deltaOperationAdded == "added"
deltaOperationModified == "modified"
deltaOperationRemoved == "removed"

-----------------------------------------------------------------------------
(* calculateHashDeltaOperations *)

\* First loop: the files of fromVersionHashes, visited in the order `order`.
RECURSIVE DeltaPassFrom(_, _, _, _)
DeltaPassFrom(delta, from, to, order) ==
    IF order = <<>> THEN delta
    ELSE LET file == Head(order)
             next == IF file \in DOMAIN to
                     THEN (IF to[file] # from[file]
                           THEN Put(delta, file, deltaOperationModified)
                           ELSE delta)
                     ELSE Put(delta, file, deltaOperationRemoved)
         IN DeltaPassFrom(next, from, to, Tail(order))

\* Second loop: the files of toVersionHashes, visited in the order `order`.
RECURSIVE DeltaPassTo(_, _, _)
DeltaPassTo(delta, from, order) ==
    IF order = <<>> THEN delta
    ELSE LET file == Head(order)
             next == IF file \notin DOMAIN from
                     THEN Put(delta, file, deltaOperationAdded)
                     ELSE delta
         IN DeltaPassTo(next, from, Tail(order))

\* Faulty variant: the comparison of the two digests inverted.
Mutant_calculateHashDeltaOperations(from, to, orderFrom, orderTo) ==
    LET same == {k \in (DOMAIN from) \cap (DOMAIN to) : to[k] = from[k]}
        oneSided == ((DOMAIN from) \ (DOMAIN to)) \cup ((DOMAIN to) \ (DOMAIN from))
    IN [f \in same \cup oneSided |->
           IF f \in same THEN deltaOperationModified
           ELSE IF f \in DOMAIN from THEN deltaOperationRemoved
           ELSE deltaOperationAdded]

calculateHashDeltaOperations(from, to, orderFrom, orderTo) ==
    DeltaPassTo(DeltaPassFrom(EmptyMap, from, to, orderFrom), from, orderTo)

-----------------------------------------------------------------------------
(* generateDeltaHash (unnamed/part_000) *)

\* []byte(value) of an operation value; the zero value "" has no bytes.
Bytes(value) ==
    CASE value = "added" -> <<"a", "d", "d", "e", "d">>
      [] value = "modified" -> <<"m", "o", "d", "i", "f", "i", "e", "d">>
      [] value = "removed" -> <<"r", "e", "m", "o", "v", "e", "d">>
      [] value = "" -> <<>>

\* operations[key]: the zero value for a key the map does not hold.
Lookup(operations, key) ==
    IF key \in DOMAIN operations THEN operations[key] ELSE ""

\* make([]string, n): n empty strings.
MakeStrings(n) == [i \in 1..n |-> <<>>]

\* The sequence s without its element at position i.
DropAt(s, i) == SubSeq(s, 1, i - 1) \o SubSeq(s, i + 1, Len(s))

\* sort.Strings(keys)
RECURSIVE SortStrings(_)
SortStrings(keys) ==
    IF keys = <<>> THEN <<>>
    ELSE LET i == CHOOSE i \in DOMAIN keys :
                      \A j \in DOMAIN keys : ~StrLess(keys[j], keys[i])
         IN <<keys[i]>> \o SortStrings(DropAt(keys, i))

\* The bytes hasher.Write receives for the slice keys, in its order.
RECURSIVE Written(_, _)
Written(operations, keys) ==
    IF keys = <<>> THEN <<>>
    ELSE Bytes(Lookup(operations, Head(keys)))
             \o Written(operations, Tail(keys))

\* fmt.Sprintf("%x", hasher.Sum(nil)): the digest of the bytes written, kept
\* as a term over those bytes (two digests are equal iff the bytes are).
HexSum(written) == <<"sha256", written>>

\* The bytes a fingerprint is the digest of.
SumInput(hash) == hash[2]

\* generateDeltaHash without the sort.Strings call.
Mutant_generateDeltaHash(operations, order) ==
    HexSum(Written(operations,
                   MakeStrings(Cardinality(DOMAIN operations)) \o order))

\* generateDeltaHash(operations), the range loop visiting the keys in
\* the order `order`: keys starts as len(operations) empty strings and
\* the keys are appended to it.
generateDeltaHash(operations, order) ==
    LET keys == MakeStrings(Cardinality(DOMAIN operations)) \o order
    IN HexSum(Written(operations, SortStrings(keys)))

-----------------------------------------------------------------------------

(* Names and paths *)

\* packager.workingDir, as configured.
workingDir == <<"w">>

\* filepath.Join of a directory and a name.
Join(dir, name) == dir \o <<"/">> \o name

\* filepath.Base: the last element of the path; "." for the empty path.
RECURSIVE BaseFrom(_, _)
BaseFrom(path, i) ==
    IF i < 1 \/ path[i] = "/" THEN SubSeq(path, i + 1, Len(path))
    ELSE BaseFrom(path, i - 1)
Base(path) == IF path = <<>> THEN <<".">> ELSE BaseFrom(path, Len(path))

\* fmt.Sprintf("%s-package", toVersion)
PackageDirName(to) == to \o <<"-", "p", "a", "c", "k", "a", "g", "e">>

\* Faulty variant: the artifact is named after toVersion alone, as the
\* package directory is.
Mutant_ArtifactName(from, to) == to \o <<".", "t", "a", "r", ".", "g", "z">>

\* fmt.Sprintf("%s-%s.tar.gz", fromVersion, toVersion)
ArtifactName(from, to) == from \o <<"-">> \o to \o <<".", "t", "a", "r", ".", "g", "z">>

\* The literal the pak check compares the lower-cased extension with.
PakLiteral == <<"p", "a", "k">>

\* The UpdateURL literal of Run.
UpdateURL == "http://update.donovansolms.com/3301923-3395761.tar.gz"

-----------------------------------------------------------------------------
(* Hashing and serialisation *)

\* An arbitrary constant in place of the zero-byte digest.
Mutant_ZeroByteHash == "0000000000000000000000000000000000000000000000000000000000000000"

\* The digest generateHashes gives a zero-byte file.
ZeroByteHash == "e3b0c44298fc1c149afbf4c8996fb92427ae41e4649b934ca495991b7852b855"

\* sha256 of a byte stream, as a hex string (one token per stream, the empty
\* stream with its real digest).
Sha256(bytes) ==
    IF bytes = <<>>
    THEN "e3b0c44298fc1c149afbf4c8996fb92427ae41e4649b934ca495991b7852b855"
    ELSE IF bytes = <<1>> THEN "sha256(01)"
    ELSE IF bytes = <<2>> THEN "sha256(02)"
    ELSE "sha256(other)"

\* generateHashes: the manifest of a tree (file name -> content).
generateHashes(tree) ==
    [usePath \in DOMAIN tree |->
        IF Len(tree[usePath]) = 0 THEN ZeroByteHash ELSE Sha256(tree[usePath])]

\* json.Marshal of a map[string]string: the members in sorted key order.
Marshal(m) ==
    LET keys == SortedNames(DOMAIN m)
    IN [i \in 1..Len(keys) |-> <<keys[i], m[keys[i]]>>]

\* json.Unmarshal into a map[string]string.
Unmarshal(json) ==
    [k \in {json[i][1] : i \in DOMAIN json} |->
        (json[CHOOSE i \in DOMAIN json : json[i][1] = k])[2]]

\* Faulty variant: the error of ioutil.WriteFile is returned.
Mutant_getVersionHashes(version, cache, trees) ==
    IF version \in DOMAIN cache
    THEN {[hashes |-> Unmarshal(cache[version]), cache |-> cache, err |-> "nil"]}
    ELSE LET hashes == generateHashes(trees[version])
         IN {[hashes |-> EmptyMap, cache |-> cache, err |-> "EIO"],
             [hashes |-> hashes, cache |-> cache, err |-> "EWRITE"],
             [hashes |-> hashes, cache |-> Put(cache, version, Marshal(hashes)),
              err |-> "nil"]}

\* getVersionHashes: the outcomes (manifest, cache afterwards, error) for a
\* version, given the cache files and the trees.
getVersionHashes(version, cache, trees) ==
    IF version \in DOMAIN cache
    THEN {[hashes |-> Unmarshal(cache[version]), cache |-> cache, err |-> "nil"]}
    ELSE LET hashes == generateHashes(trees[version])
         IN {[hashes |-> EmptyMap, cache |-> cache, err |-> "EIO"],
             [hashes |-> hashes, cache |-> cache, err |-> "nil"],
             [hashes |-> hashes, cache |-> Put(cache, version, Marshal(hashes)),
              err |-> "nil"]}

-----------------------------------------------------------------------------
(* The record store *)

\* The zero value of models.Ut4UpdatePackages.
ZeroRecord == [FromVersion |-> <<>>, ToVersion |-> <<>>, UpdateURL |-> "",
               DateCreated |-> 0, IsDeleted |-> 0]

\* Faulty variant: the query finds nothing.
Mutant_FirstRecord(from, to) == ZeroRecord

\* db.Where("from_version = ? AND to_version = ? ANd is_deleted = 0").First:
\* the first matching row, or the untouched zero value when there is none.
FirstRecord(from, to) ==
    LET match == {i \in DOMAIN records :
                     /\ records[i].FromVersion = from
                     /\ records[i].ToVersion = to
                     /\ records[i].IsDeleted = 0}
    IN IF match = {} THEN ZeroRecord
       ELSE records[CHOOSE i \in match : \A j \in match : i <= j]

\* updateCheck.FromVersion != "" && updateCheck.ToVersion != ""
HaveVersion(from, to) ==
    LET updateCheck == FirstRecord(from, to)
    IN updateCheck.FromVersion # <<>> /\ updateCheck.ToVersion # <<>>

-----------------------------------------------------------------------------
(* The releases a behaviour starts from *)

aTxt == <<"a", ".", "t", "x", "t">>
xPak == <<"x", ".", "p", "a", "k">>

\* The trees a release may hold: file name -> content (a byte stream).
TreeChoices ==
    {EmptyMap,
     [f \in {aTxt} |-> <<>>],
     [f \in {aTxt, xPak} |-> IF f = aTxt THEN <<2>> ELSE <<1>>],
     [f \in {xPak} |-> <<2>>]}

\* A path at which there is no file.
Absent == [exists |-> FALSE, mode |-> {}, data |-> <<>>]

\* A file with permission bits mode and content data.
File(mode, data) == [exists |-> TRUE, mode |-> mode, data |-> data]

\* CopyFile on its own is not running.
CopyOff ==
    /\ cSrc = Absent
    /\ cDest = Absent
    /\ cUmask = {}
    /\ cErr = "nil"
    /\ cpc = "off"

\* The versions that may be installed in releaseDir at the start.
InstalledChoices == {<<"9">>, <<"1", "0">>, <<"1", "1">>}

\* The versions the announced release may have.
NewVersionChoices == {<<"1", "0">>, <<"1", "2">>}

\* The manifests the delta calculator is given when checked on its own.
DeltaFiles == {aTxt, xPak, <<"o">>, <<"d", "/", "o">>}
DeltaDigests == {"sha256(01)", "sha256(02)"}
Manifests == UNION {[S -> DeltaDigests] : S \in SUBSET DeltaFiles}

-----------------------------------------------------------------------------
(* Initial states *)

RunIdle ==
    /\ pc = "idle"
    /\ runs = 0
    /\ result = "none"
    /\ versions = <<>>
    /\ idx = 1
    /\ fromVersionHashes = EmptyMap
    /\ toVersionHashes = EmptyMap
    /\ deltaOperations = EmptyMap
    /\ todo = {}
    /\ packagePath = <<>>
    /\ genErr = "nil"

DiskEmpty ==
    /\ hashCache = EmptyMap
    /\ workingDirExists = FALSE
    /\ packageTrees = EmptyMap
    /\ workArtifacts = EmptyMap
    /\ packageDir = EmptyMap
    /\ records = <<>>

Init ==
    /\ newVersion \in NewVersionChoices
    /\ newTree \in TreeChoices
    /\ \E S \in SUBSET InstalledChoices : releaseDir \in [S -> TreeChoices]
    /\ DiskEmpty
    /\ RunIdle
    /\ dFrom = EmptyMap /\ dTo = EmptyMap /\ dOut = EmptyMap /\ dpc = "off"
    /\ dHash = <<>>
    /\ CopyOff

-----------------------------------------------------------------------------
(* Program start and the part of Run before the loop *)

\* Run returns `res` (or the process dies) and the process ends: its
\* variables are gone, the disk and the store stay.
Exit(res) ==
    /\ pc' = "idle"
    /\ result' = res
    /\ versions' = <<>>
    /\ idx' = 1
    /\ fromVersionHashes' = EmptyMap
    /\ toVersionHashes' = EmptyMap
    /\ deltaOperations' = EmptyMap
    /\ todo' = {}
    /\ packagePath' = <<>>
    /\ genErr' = "nil"

\* New: os.MkdirAll of the three directories.
New ==
    /\ pc = "idle"
    /\ runs < MaxRuns
    /\ pc' = "start"
    /\ runs' = runs + 1
    /\ result' = "running"
    /\ workingDirExists' = TRUE
    /\ UNCHANGED <<newVersion, newTree, releaseDir, hashCache, packageTrees,
                   workArtifacts, packageDir, records, runVars, deltaVars>>

\* Run up to the loop: the release is fetched, its version read, the tree
\* moved to releaseDir/<newVersion>, the versions listed, the store opened.
RunPrelude ==
    /\ pc = "start"
    /\ releaseDir' = Put(releaseDir, newVersion, newTree)
    /\ versions' = SortedNames(DOMAIN releaseDir')
    /\ idx' = 1
    /\ pc' = "loop"
    /\ UNCHANGED <<newVersion, newTree, hashCache, workingDirExists, packageTrees,
                   workArtifacts, packageDir, records, runs, result,
                   fromVersionHashes, toVersionHashes, deltaOperations, todo,
                   packagePath, genErr, deltaVars>>

\* One of the steps before the loop fails: Run returns the error.
RunPreludeFail ==
    /\ pc = "start"
    /\ Exit("error")
    /\ UNCHANGED <<newVersion, newTree, diskVars, records, runs, deltaVars>>

-----------------------------------------------------------------------------
(* Run: the loop over the versions *)

InLoop == pc = "loop" /\ idx <= Len(versions)

\* version >= newVersion: the version is skipped.
SkipVersion ==
    /\ InLoop
    /\ StrGE(versions[idx], newVersion)
    /\ idx' = idx + 1
    /\ UNCHANGED <<newVersion, newTree, diskVars, records, pc, runs, result,
                   versions, fromVersionHashes, toVersionHashes, deltaOperations,
                   todo, packagePath, genErr, deltaVars>>

\* Faulty variant: an error of the query is taken for record-not-found and
\* generateUpgradePath is called.
Mutant_LookupError ==
    /\ InLoop
    /\ ~StrGE(versions[idx], newVersion)
    /\ pc' = "hashFrom"
    /\ fromVersionHashes' = EmptyMap
    /\ toVersionHashes' = EmptyMap
    /\ deltaOperations' = EmptyMap
    /\ todo' = {}
    /\ packagePath' = <<>>
    /\ genErr' = "nil"
    /\ UNCHANGED <<newVersion, newTree, diskVars, records, runs, result, versions,
                   idx, deltaVars>>

\* The query fails with an error other than record-not-found: Run returns
\* query.Error.
LookupError ==
    /\ InLoop
    /\ ~StrGE(versions[idx], newVersion)
    /\ Exit("query.Error")
    /\ UNCHANGED <<newVersion, newTree, diskVars, records, runs, deltaVars>>

\* The query finds a row: "Upgrade already processed".
AlreadyProcessed ==
    /\ InLoop
    /\ ~StrGE(versions[idx], newVersion)
    /\ HaveVersion(versions[idx], newVersion)
    /\ idx' = idx + 1
    /\ UNCHANGED <<newVersion, newTree, diskVars, records, pc, runs, result,
                   versions, fromVersionHashes, toVersionHashes, deltaOperations,
                   todo, packagePath, genErr, deltaVars>>

\* The query finds no row: generateUpgradePath is called.
StartPair ==
    /\ InLoop
    /\ ~StrGE(versions[idx], newVersion)
    /\ ~HaveVersion(versions[idx], newVersion)
    /\ pc' = "hashFrom"
    /\ fromVersionHashes' = EmptyMap
    /\ toVersionHashes' = EmptyMap
    /\ deltaOperations' = EmptyMap
    /\ todo' = {}
    /\ packagePath' = <<>>
    /\ genErr' = "nil"
    /\ UNCHANGED <<newVersion, newTree, diskVars, records, runs, result, versions,
                   idx, deltaVars>>

\* After the loop: os.RemoveAll(workingDir) and return nil.
Finish ==
    /\ pc = "loop"
    /\ idx > Len(versions)
    /\ workingDirExists' = FALSE
    /\ packageTrees' = EmptyMap
    /\ workArtifacts' = EmptyMap
    /\ Exit("nil")
    /\ UNCHANGED <<newVersion, newTree, releaseDir, hashCache, packageDir, records,
                   runs, deltaVars>>

\* After the loop: os.RemoveAll(workingDir) fails, its error is dropped, and
\* Run returns nil.
FinishRemoveFails ==
    /\ pc = "loop"
    /\ idx > Len(versions)
    /\ Exit("nil")
    /\ UNCHANGED <<newVersion, newTree, diskVars, records, runs, deltaVars>>

-----------------------------------------------------------------------------
(* generateUpgradePath *)

fromVersion == versions[idx]
toVersion == newVersion

\* The content of a package directory that does not hold a descriptor.
NoFile == <<"no file">>

\* workingPackagePath and what it holds (nothing if it does not exist).
workingPackagePath == PackageDirName(toVersion)
PackageExists == workingPackagePath \in DOMAIN packageTrees
PackageTree == IF PackageExists THEN packageTrees[workingPackagePath]
               ELSE [files |-> EmptyMap, ops |-> NoFile]

\* generateUpgradePath returns ("", err).
GenerateFails(err) ==
    /\ genErr' = err
    /\ packagePath' = <<>>
    /\ pc' = "rename"

\* getVersionHashes(fromVersion), after the check that the versions differ.
GetFromHashes ==
    /\ pc = "hashFrom"
    /\ IF fromVersion = toVersion
       THEN /\ GenerateFails("same version")
            /\ UNCHANGED <<hashCache, fromVersionHashes>>
       ELSE \E r \in getVersionHashes(fromVersion, hashCache, releaseDir) :
               /\ hashCache' = r.cache
               /\ IF r.err = "nil"
                  THEN /\ fromVersionHashes' = r.hashes
                       /\ pc' = "hashTo"
                       /\ UNCHANGED <<genErr, packagePath>>
                  ELSE /\ GenerateFails(r.err)
                       /\ UNCHANGED fromVersionHashes
    /\ UNCHANGED <<newVersion, newTree, releaseDir, workingDirExists, packageTrees,
                   workArtifacts, packageDir, records, runs, result, versions, idx,
                   toVersionHashes, deltaOperations, todo, deltaVars>>

\* getVersionHashes(toVersion).
GetToHashes ==
    /\ pc = "hashTo"
    /\ \E r \in getVersionHashes(toVersion, hashCache, releaseDir) :
          /\ hashCache' = r.cache
          /\ IF r.err = "nil"
             THEN /\ toVersionHashes' = r.hashes
                  /\ pc' = "delta"
                  /\ UNCHANGED <<genErr, packagePath>>
             ELSE /\ GenerateFails(r.err)
                  /\ UNCHANGED toVersionHashes
    /\ UNCHANGED <<newVersion, newTree, releaseDir, workingDirExists, packageTrees,
                   workArtifacts, packageDir, records, runs, result, versions, idx,
                   fromVersionHashes, deltaOperations, todo, deltaVars>>

\* deltaOperations := calculateHashDeltaOperations(from, to); the range loop
\* over it starts.
ComputeDelta ==
    /\ pc = "delta"
    /\ \E orderFrom \in Orders(DOMAIN fromVersionHashes),
          orderTo \in Orders(DOMAIN toVersionHashes) :
          deltaOperations' = calculateHashDeltaOperations(
              fromVersionHashes, toVersionHashes, orderFrom, orderTo)
    /\ todo' = DOMAIN deltaOperations'
    /\ pc' = "copy"
    /\ UNCHANGED <<newVersion, newTree, diskVars, records, runs, result, versions,
                   idx, fromVersionHashes, toVersionHashes, packagePath, genErr,
                   deltaVars>>

\* The pak check of the loop: the file is left out of the copy.
PakSkipped(filename, operation) ==
    /\ ToLower(Ext(filename)) = PakLiteral
    /\ operation = deltaOperationModified

\* Whether the loop body copies the file.
Copies(filename, operation) ==
    /\ operation \in {deltaOperationAdded, deltaOperationModified}
    /\ ~PakSkipped(filename, operation)

\* A loop iteration that copies nothing.
CopyContinue ==
    /\ pc = "copy"
    /\ \E filename \in todo :
          /\ ~Copies(filename, deltaOperations[filename])
          /\ todo' = todo \ {filename}
    /\ UNCHANGED <<newVersion, newTree, diskVars, records, pc, runs, result,
                   versions, idx, fromVersionHashes, toVersionHashes,
                   deltaOperations, packagePath, genErr, deltaVars>>

\* CopyOne with the source taken from the release being upgraded.
Mutant_CopyOne ==
    /\ pc = "copy"
    /\ \E filename \in todo :
          /\ Copies(filename, deltaOperations[filename])
          /\ filename \in DOMAIN releaseDir[toVersion]
          /\ packageTrees' = Put(packageTrees, workingPackagePath,
                 [files |-> Put(PackageTree.files, filename,
                                IF filename \in DOMAIN releaseDir[fromVersion]
                                THEN releaseDir[fromVersion][filename]
                                ELSE releaseDir[toVersion][filename]),
                  ops |-> PackageTree.ops])
          /\ todo' = todo \ {filename}
    /\ UNCHANGED <<newVersion, newTree, releaseDir, hashCache, workingDirExists,
                   workArtifacts, packageDir, records, pc, runs, result, versions,
                   idx, fromVersionHashes, toVersionHashes, deltaOperations,
                   packagePath, genErr, deltaVars>>

\* A loop iteration that copies the file: os.MkdirAll and CopyFile succeed.
CopyOne ==
    /\ pc = "copy"
    /\ \E filename \in todo :
          /\ Copies(filename, deltaOperations[filename])
          /\ filename \in DOMAIN releaseDir[toVersion]
          /\ packageTrees' = Put(packageTrees, workingPackagePath,
                 [files |-> Put(PackageTree.files, filename,
                                releaseDir[toVersion][filename]),
                  ops |-> PackageTree.ops])
          /\ todo' = todo \ {filename}
    /\ UNCHANGED <<newVersion, newTree, releaseDir, hashCache, workingDirExists,
                   workArtifacts, packageDir, records, pc, runs, result, versions,
                   idx, fromVersionHashes, toVersionHashes, deltaOperations,
                   packagePath, genErr, deltaVars>>

\* A loop iteration that fails: os.MkdirAll fails, or it succeeds and CopyFile
\* fails (also when the source file is missing).
CopyFails ==
    /\ pc = "copy"
    /\ \E filename \in todo, made \in BOOLEAN :
          /\ Copies(filename, deltaOperations[filename])
          /\ packageTrees' = IF made
                             THEN Put(packageTrees, workingPackagePath, PackageTree)
                             ELSE packageTrees
          /\ GenerateFails(IF made /\ filename \notin DOMAIN releaseDir[toVersion]
                           THEN "ENOENT" ELSE "EIO")
    /\ UNCHANGED <<newVersion, newTree, releaseDir, hashCache, workingDirExists,
                   workArtifacts, packageDir, records, runs, result, versions, idx,
                   fromVersionHashes, toVersionHashes, deltaOperations, todo,
                   deltaVars>>

\* The loop has visited every key.
CopyDone ==
    /\ pc = "copy"
    /\ todo = {}
    /\ pc' = "descriptor"
    /\ UNCHANGED <<newVersion, newTree, diskVars, records, runs, result, versions,
                   idx, fromVersionHashes, toVersionHashes, deltaOperations, todo,
                   packagePath, genErr, deltaVars>>

\* Faulty variant: the descriptor marks the modified pak files as deferred.
Mutant_WriteDescriptorDeferred ==
    /\ pc = "descriptor"
    /\ PackageExists
    /\ packageTrees' = Put(packageTrees, workingPackagePath,
           [files |-> PackageTree.files,
            ops |-> Marshal([f \in DOMAIN deltaOperations |->
                       IF ToLower(Ext(f)) = <<".">> \o PakLiteral
                          /\ deltaOperations[f] = deltaOperationModified
                       THEN "modified-deferred" ELSE deltaOperations[f]])])
    /\ pc' = "compress"
    /\ UNCHANGED <<newVersion, newTree, releaseDir, hashCache, workingDirExists,
                   workArtifacts, packageDir, records, runs, result, versions, idx,
                   fromVersionHashes, toVersionHashes, deltaOperations, todo,
                   packagePath, genErr, deltaVars>>

\* Faulty variant: the descriptor lists only the files that were copied.
Mutant_WriteDescriptorCopied ==
    /\ pc = "descriptor"
    /\ PackageExists
    /\ packageTrees' = Put(packageTrees, workingPackagePath,
           [files |-> PackageTree.files,
            ops |-> Marshal(Restrict(deltaOperations,
                       {f \in DOMAIN deltaOperations :
                           Copies(f, deltaOperations[f])}))])
    /\ pc' = "compress"
    /\ UNCHANGED <<newVersion, newTree, releaseDir, hashCache, workingDirExists,
                   workArtifacts, packageDir, records, runs, result, versions, idx,
                   fromVersionHashes, toVersionHashes, deltaOperations, todo,
                   packagePath, genErr, deltaVars>>

\* json.Marshal(&deltaOperations) written to workingPackagePath/operations.json.
WriteDescriptor ==
    /\ pc = "descriptor"
    /\ PackageExists
    /\ packageTrees' = Put(packageTrees, workingPackagePath,
           [files |-> PackageTree.files, ops |-> Marshal(deltaOperations)])
    /\ pc' = "compress"
    /\ UNCHANGED <<newVersion, newTree, releaseDir, hashCache, workingDirExists,
                   workArtifacts, packageDir, records, runs, result, versions, idx,
                   fromVersionHashes, toVersionHashes, deltaOperations, todo,
                   packagePath, genErr, deltaVars>>

\* ioutil.WriteFile fails because workingPackagePath does not exist.
WriteDescriptorNoDir ==
    /\ pc = "descriptor"
    /\ ~PackageExists
    /\ GenerateFails("ENOENT")
    /\ UNCHANGED <<newVersion, newTree, diskVars, records, runs, result, versions,
                   idx, fromVersionHashes, toVersionHashes, deltaOperations, todo,
                   deltaVars>>

\* ioutil.WriteFile fails for another reason.
WriteDescriptorFails ==
    /\ pc = "descriptor"
    /\ PackageExists
    /\ GenerateFails("EIO")
    /\ UNCHANGED <<newVersion, newTree, diskVars, records, runs, result, versions,
                   idx, fromVersionHashes, toVersionHashes, deltaOperations, todo,
                   deltaVars>>

\* compressedPath
compressedPath == Join(workingDir, ArtifactName(fromVersion, toVersion))

\* tar.Create, tar.AddAll(workingPackagePath) and tar.Close: the archive holds
\* what the package directory holds.
Compress ==
    /\ pc = "compress"
    /\ workArtifacts' = Put(workArtifacts, compressedPath, PackageTree)
    /\ packagePath' = compressedPath
    /\ genErr' = "nil"
    /\ pc' = "rename"
    /\ UNCHANGED <<newVersion, newTree, releaseDir, hashCache, workingDirExists,
                   packageTrees, packageDir, records, runs, result, versions, idx,
                   fromVersionHashes, toVersionHashes, deltaOperations, todo,
                   deltaVars>>

\* tar.Create or tar.AddAll fails.
CompressFails ==
    /\ pc = "compress"
    /\ GenerateFails("EIO")
    /\ UNCHANGED <<newVersion, newTree, diskVars, records, runs, result, versions,
                   idx, fromVersionHashes, toVersionHashes, deltaOperations, todo,
                   deltaVars>>

-----------------------------------------------------------------------------
(* Run: after generateUpgradePath *)

Remove(m, k) == Restrict(m, (DOMAIN m) \ {k})

\* Faulty variant: the record of the pair is stored before os.Rename, whose
\* failure then ends the run.
Mutant_RenameFailsRecorded ==
    /\ pc = "rename"
    /\ records' = Append(records,
           [FromVersion |-> fromVersion, ToVersion |-> toVersion,
            UpdateURL |-> UpdateURL, DateCreated |-> runs, IsDeleted |-> 0])
    /\ Exit("error")
    /\ UNCHANGED <<newVersion, newTree, diskVars, runs, deltaVars>>

\* Faulty variant: the error of os.Rename is not looked at.
Mutant_RenameFails ==
    /\ pc = "rename"
    /\ pc' = "save"
    /\ UNCHANGED <<newVersion, newTree, diskVars, records, runs, result, runVars,
                   deltaVars>>

\* os.Rename(packagePath, packageDir/Base(packagePath)) succeeds.
Rename ==
    /\ pc = "rename"
    /\ packagePath \in DOMAIN workArtifacts
    /\ packageDir' = Put(packageDir, Base(packagePath), workArtifacts[packagePath])
    /\ workArtifacts' = Remove(workArtifacts, packagePath)
    /\ pc' = "save"
    /\ UNCHANGED <<newVersion, newTree, releaseDir, hashCache, workingDirExists,
                   packageTrees, records, runs, result, runVars, deltaVars>>

\* os.Rename fails (it always does for the empty packagePath that a failed
\* generateUpgradePath returns): Run returns the error.
RenameFails ==
    /\ pc = "rename"
    /\ Exit("error")
    /\ UNCHANGED <<newVersion, newTree, diskVars, records, runs, deltaVars>>

\* db.Save(&updatePackage) succeeds; the loop goes on.
Save ==
    /\ pc = "save"
    /\ records' = Append(records,
           [FromVersion |-> fromVersion, ToVersion |-> toVersion,
            UpdateURL |-> UpdateURL, DateCreated |-> runs, IsDeleted |-> 0])
    /\ idx' = idx + 1
    /\ pc' = "loop"
    /\ UNCHANGED <<newVersion, newTree, diskVars, runs, result, versions,
                   fromVersionHashes, toVersionHashes, deltaOperations, todo,
                   packagePath, genErr, deltaVars>>

\* db.Save fails: "return err", where err is the nil of os.Rename.
SaveFails ==
    /\ pc = "save"
    /\ Exit("nil")
    /\ UNCHANGED <<newVersion, newTree, diskVars, records, runs, deltaVars>>

\* The process is killed at any point of New/Run.
Kill ==
    /\ pc # "idle"
    /\ Exit("killed")
    /\ UNCHANGED <<newVersion, newTree, diskVars, records, runs, deltaVars>>

-----------------------------------------------------------------------------
(* The program *)

Next ==
    \/ New
    \/ RunPrelude
    \/ RunPreludeFail
    \/ SkipVersion
    \/ LookupError
    \/ AlreadyProcessed
    \/ StartPair
    \/ Finish
    \/ FinishRemoveFails
    \/ GetFromHashes
    \/ GetToHashes
    \/ ComputeDelta
    \/ CopyContinue
    \/ CopyOne
    \/ CopyFails
    \/ CopyDone
    \/ WriteDescriptor
    \/ WriteDescriptorNoDir
    \/ WriteDescriptorFails
    \/ Compress
    \/ CompressFails
    \/ Rename
    \/ RenameFails
    \/ Save
    \/ SaveFails
    \/ Kill

Spec == Init /\ [][Next]_vars

-----------------------------------------------------------------------------
(* The delta calculator on its own, over all manifests of DeltaFiles *)

InitDelta ==
    /\ newVersion = <<"1", "2">>
    /\ newTree = EmptyMap
    /\ releaseDir = EmptyMap
    /\ DiskEmpty
    /\ RunIdle
    /\ dFrom \in Manifests
    /\ dTo \in Manifests
    /\ dOut = EmptyMap
    /\ dHash = <<>>
    /\ dpc = "ready"
    /\ CopyOff

\* One call of calculateHashDeltaOperations(dFrom, dTo).
CallDelta ==
    /\ dpc = "ready"
    /\ \E orderFrom \in Orders(DOMAIN dFrom), orderTo \in Orders(DOMAIN dTo) :
          dOut' = calculateHashDeltaOperations(dFrom, dTo, orderFrom, orderTo)
    /\ dpc' = "called"
    /\ UNCHANGED <<newVersion, newTree, diskVars, records, pc, runs, result, runVars,
                   dFrom, dTo, dHash, copyVars>>

\* One call of generateDeltaHash(dOut).
CallDeltaHash ==
    /\ dpc = "called"
    /\ \E order \in Orders(DOMAIN dOut) : dHash' = generateDeltaHash(dOut, order)
    /\ dpc' = "hashed"
    /\ UNCHANGED <<newVersion, newTree, diskVars, records, pc, runs, result, runVars,
                   dFrom, dTo, dOut, copyVars>>

NextDelta == CallDelta \/ CallDeltaHash

SpecDelta == InitDelta /\ [][NextDelta]_vars

-----------------------------------------------------------------------------
(* CopyFile on its own, over files with permission bits *)

\* Permission bits: r, w, x of user, group and others.
ModeRW == {"ur", "uw"}
ModeRWRR == {"ur", "uw", "gr", "or"}
ModeRWXRXRX == {"ur", "uw", "ux", "gr", "gx", "or", "ox"}
ModeRRR == {"ur", "gr", "or"}

\* The permission argument os.Create passes to open(2): rw-rw-rw-.
CreateMode == {"ur", "uw", "gr", "gw", "or", "ow"}

\* The umasks of the process: 022, 002, 077.
UmaskChoices == {{"gw", "ow"}, {"ow"}, {"gr", "gw", "gx", "or", "ow", "ox"}}

\* The files that may be at source, and at dest before the call.
SourceChoices ==
    {Absent} \cup {File(m, d) : m \in {ModeRW, ModeRWRR, ModeRWXRXRX, ModeRRR},
                               d \in {<<>>, <<1>>}}
DestChoices == {Absent} \cup {File(m, <<2>>) : m \in {ModeRW, ModeRWRR, ModeRWXRXRX}}

\* os.Create(dest): an existing file is truncated and keeps its mode, a new
\* file gets rw-rw-rw- less the umask.
Create(dest, umask) ==
    IF dest.exists THEN File(dest.mode, <<>>) ELSE File(CreateMode \ umask, <<>>)

InitCopy ==
    /\ newVersion = <<"1", "2">>
    /\ newTree = EmptyMap
    /\ releaseDir = EmptyMap
    /\ DiskEmpty
    /\ RunIdle
    /\ dFrom = EmptyMap /\ dTo = EmptyMap /\ dOut = EmptyMap /\ dpc = "off"
    /\ dHash = <<>>
    /\ cSrc \in SourceChoices
    /\ cDest \in DestChoices
    /\ cUmask \in UmaskChoices
    /\ cErr = "nil"
    /\ cpc = "ready"

\* One call of CopyFile(source, dest). Its outcomes are those of os.Open,
\* os.Create, io.Copy and os.Stat; os.Chmod is reached only when os.Stat
\* failed, with a nil sourceinfo, and then the call panics.
CopyFile ==
    /\ cpc = "ready"
    /\ \E open \in BOOLEAN, create \in BOOLEAN, copy \in BOOLEAN, stat \in BOOLEAN :
          /\ open => cSrc.exists
          /\ IF ~open
             THEN cErr' = "open" /\ cDest' = cDest
             ELSE IF ~create
             THEN cErr' = "create" /\ cDest' = cDest
             ELSE IF ~copy
             THEN /\ cErr' = "copy"
                  /\ \E n \in 0..Len(cSrc.data) :
                        cDest' = File(Create(cDest, cUmask).mode,
                                      SubSeq(cSrc.data, 1, n))
             ELSE /\ cErr' = IF stat THEN "nil" ELSE "panic"
                  /\ cDest' = File(Create(cDest, cUmask).mode, cSrc.data)
    /\ cpc' = "done"
    /\ UNCHANGED <<newVersion, newTree, diskVars, records, pc, runs, result, runVars,
                   dFrom, dTo, dOut, dHash, dpc, cSrc, cUmask>>

NextCopy == CopyFile

SpecCopy == InitCopy /\ [][NextCopy]_vars

-----------------------------------------------------------------------------

(* Properties *)

\* The positions of Run inside the processing of one (from, to) pair.
PairPositions == {"hashFrom", "hashTo", "delta", "copy", "descriptor", "compress",
                  "rename", "save"}

\* A file name with the extension of the opaque-file policy (.pak).
IsOpaque(path) == ToLower(Ext(path)) = <<".", "p", "a", "k">>

\* The paths a descriptor (a marshalled map) lists.
DescriptorPaths(json) == {json[i][1] : i \in DOMAIN json}

\* C1: calculateHashDeltaOperations(A, B) lists a path exactly when A and B
\* differ at it, as removed iff it is only in A, modified iff it is in both
\* with different digests, added iff it is only in B; a path with equal
\* digests is never listed.
C1_DeltaClassifies ==
    dpc = "called" =>
        \A p \in DeltaFiles :
            LET inA == p \in DOMAIN dFrom
                inB == p \in DOMAIN dTo
                differ == (inA /\ ~inB) \/ (inB /\ ~inA)
                          \/ (inA /\ inB /\ dFrom[p] # dTo[p])
            IN /\ (p \in DOMAIN dOut) <=> differ
               /\ p \in DOMAIN dOut =>
                    /\ (dOut[p] = "removed") <=> (inA /\ ~inB)
                    /\ (dOut[p] = "modified") <=> (inA /\ inB /\ dFrom[p] # dTo[p])
                    /\ (dOut[p] = "added") <=> (inB /\ ~inA)

\* C1, its case: a call whose result holds a removed, a modified and an added
\* path while a fourth path has equal digests in both manifests.
C1_Witness ==
    /\ dpc = "called"
    /\ \E r, m, a \in DOMAIN dOut :
          dOut[r] = "removed" /\ dOut[m] = "modified" /\ dOut[a] = "added"
    /\ \E e \in (DOMAIN dFrom) \cap (DOMAIN dTo) : dFrom[e] = dTo[e]

\* C2: the archive generateUpgradePath builds for a pair holds only files
\* whose operation in that pair's delta is added or modified.
C2_ArchiveHoldsOnlyDelta ==
    (pc = "rename" /\ packagePath \in DOMAIN workArtifacts) =>
        DOMAIN workArtifacts[packagePath].files \subseteq
            {p \in DOMAIN deltaOperations :
                deltaOperations[p] \in {deltaOperationAdded, deltaOperationModified}}

\* C3: after generateUpgradePath has failed for a pair, Run goes on with the
\* next version of the list (unless the process is killed); it does not return.
C3_FailedPairDoesNotEndRun ==
    [][(pc = "rename" /\ genErr # "nil" /\ result' # "killed")
          => (pc' = "loop" /\ idx' = idx + 1)]_vars

\* C4: the store never holds two non-deleted records of one (from, to) pair,
\* and a pair that has a record is not processed again.
C4_OneRecordPerPair ==
    /\ \A i, j \in DOMAIN records :
          (/\ records[i].FromVersion = records[j].FromVersion
           /\ records[i].ToVersion = records[j].ToVersion
           /\ records[i].IsDeleted = 0
           /\ records[j].IsDeleted = 0) => i = j
    /\ pc \in PairPositions => ~HaveVersion(fromVersion, toVersion)

\* C4, its case: the second invocation has just skipped a pair whose record
\* the first invocation saved.
C4_Witness ==
    /\ runs = 2
    /\ pc = "loop"
    /\ idx > 1
    /\ \E i \in DOMAIN records :
          /\ records[i].FromVersion = versions[idx - 1]
          /\ records[i].ToVersion = newVersion
          /\ records[i].DateCreated = 1

\* C5: every record's pair has its artifact in the package directory.
C5_RecordOnlyAfterArtifact ==
    \A i \in DOMAIN records :
        ArtifactName(records[i].FromVersion, records[i].ToVersion)
            \in DOMAIN packageDir

\* C5, its case: a record was saved and the process was then killed.
C5_Witness ==
    /\ Len(records) >= 1
    /\ result = "killed"

\* C6: the loop skips a version by the version test exactly when its number
\* is not smaller than the new version's number.
C6_NumericComparison ==
    [][/\ SkipVersion => Num(versions[idx]) >= Num(newVersion)
       /\ (StartPair \/ AlreadyProcessed) => Num(versions[idx]) < Num(newVersion)]_vars

\* C7: the copy loop never copies a modified file that has the .pak extension
\* (the claim's case; it says the same of added .pak files).
C7_PakNotCopied ==
    [][\A f \in todo :
          (CopyOne /\ f \notin todo') =>
              ~(IsOpaque(f) /\ deltaOperations[f] = deltaOperationModified)]_vars

C9_DescriptorListsDelta ==
    pc = "compress" =>
        DescriptorPaths(PackageTree.ops) =
            DOMAIN calculateHashDeltaOperations(
                fromVersionHashes, toVersionHashes,
                CHOOSE o \in Orders(DOMAIN fromVersionHashes) : TRUE,
                CHOOSE o \in Orders(DOMAIN toVersionHashes) : TRUE)

\* C9, its case: a descriptor was written for a delta with a removed path and
\* with a path that was copied.
C9_Witness ==
    /\ pc = "compress"
    /\ \E p \in DOMAIN deltaOperations : deltaOperations[p] = deltaOperationRemoved
    /\ \E p \in DOMAIN deltaOperations :
          /\ Copies(p, deltaOperations[p])
          /\ p \in DescriptorPaths(PackageTree.ops)
    /\ \E p \in DescriptorPaths(PackageTree.ops) : p \notin DOMAIN PackageTree.files

\* C10: when the delta of a pair has no file to copy, generateUpgradePath does
\* not fail for want of the package directory.
C10_EmptyPayloadAssembles ==
    (/\ pc = "rename"
     /\ \A p \in DOMAIN deltaOperations : ~Copies(p, deltaOperations[p]))
        => genErr # "ENOENT"


-----------------------------------------------------------------------------
(* Applying a package *)

\* The paths a descriptor lists with one of the operations in ops.
ListedAs(descriptor, ops) ==
    {descriptor[i][1] : i \in {j \in DOMAIN descriptor : descriptor[j][2] \in ops}}

\* The paths a package lists as added or modified and does not carry.
Deferred(pkg) ==
    ListedAs(pkg.ops, {deltaOperationAdded, deltaOperationModified})
        \ DOMAIN pkg.files

\* The tree left by applying pkg to tree: listed payload files are copied in,
\* removed paths are deleted, every other path is left as it is.
ApplyPackage(tree, pkg) ==
    LET copied == ListedAs(pkg.ops, {deltaOperationAdded, deltaOperationModified})
                      \cap DOMAIN pkg.files
        removed == ListedAs(pkg.ops, {deltaOperationRemoved})
    IN [p \in (DOMAIN tree \ removed) \cup copied |->
            IF p \in copied THEN pkg.files[p] ELSE tree[p]]

\* The manifests m and n agree on path p.
AgreeOn(m, n, p) ==
    /\ p \in DOMAIN m <=> p \in DOMAIN n
    /\ p \in DOMAIN m => m[p] = n[p]

C12_ZeroLengthDigest ==
    pc \in {"hashTo", "delta"} =>
        \A f \in DOMAIN releaseDir[fromVersion] :
            Len(releaseDir[fromVersion][f]) = 0 =>
                /\ f \in DOMAIN fromVersionHashes
                /\ fromVersionHashes[f] = Sha256(<<>>)

\* C12, its case: the manifest of a tree with a zero-length file was built by
\* generateHashes (the version was not cached before).
C12_Witness ==
    /\ pc = "hashTo"
    /\ runs = 1
    /\ \E f \in DOMAIN releaseDir[fromVersion] :
          Len(releaseDir[fromVersion][f]) = 0


\* C13: a file copied by CopyFile has the permission bits of its source.
C13_CopyKeepsMode ==
    (cpc = "done" /\ cErr = "nil") => cDest.mode = cSrc.mode


\* C14: calculateHashDeltaOperations of a manifest with itself is empty.
C14_SelfDeltaEmpty ==
    (dpc # "ready" /\ dpc # "off" /\ dFrom = dTo) => dOut = EmptyMap

\* C14, its case: the delta of a manifest of two or more paths with itself
\* was computed.
C14_Witness ==
    /\ dpc = "called"
    /\ dFrom = dTo
    /\ Cardinality(DOMAIN dFrom) >= 2


\* C15: the operations and the fingerprint computed for two manifests are
\* the ones every order of iterating the two manifests and the operation map
\* gives.
C15_OrderIndependent ==
    dpc = "hashed" =>
        /\ \A orderFrom \in Orders(DOMAIN dFrom), orderTo \in Orders(DOMAIN dTo) :
               calculateHashDeltaOperations(dFrom, dTo, orderFrom, orderTo) = dOut
        /\ \A order \in Orders(DOMAIN dOut) : generateDeltaHash(dOut, order) = dHash

\* C15, its case: a fingerprint was computed for three or more operations
\* that are not all the same.
C15_Witness ==
    /\ dpc = "hashed"
    /\ Cardinality(DOMAIN dOut) >= 3
    /\ \E p, q \in DOMAIN dOut : dOut[p] # dOut[q]


\* Every operation map over the paths of DeltaFiles.
OperationSets ==
    UNION {[S -> {deltaOperationAdded, deltaOperationModified, deltaOperationRemoved}] :
               S \in SUBSET DeltaFiles}

\* C16: the bytes generateDeltaHash feeds the hash for an operation map are
\* fed for no other operation map: equal bytes mean the same paths with the
\* same operations.
C16_FingerprintCoversPaths ==
    dpc = "hashed" =>
        \A other \in OperationSets :
            LET order == CHOOSE o \in Orders(DOMAIN other) : TRUE
            IN SumInput(generateDeltaHash(other, order)) = SumInput(dHash)
                   => other = dOut


\* C17: when db.Save fails for a pair, Run returns an error.
C17_SaveFailureReturnsError ==
    [][(pc = "save" /\ pc' = "idle" /\ result' # "killed") => result' = "error"]_vars

\* C18: when Run has returned without an error the working directory is gone.
C18_NilReturnCleared ==
    (pc = "idle" /\ result = "nil") => ~workingDirExists


\* C19: when Run ends inside the processing of a pair (a manifest, assembly,
\* compression, relocation or store failure, or the death of the process)
\* the store holds no record of that pair afterwards, so the lookup of the
\* next invocation does not find it processed.
C19_FailedPairHasNoRecord ==
    [][(pc \in PairPositions /\ pc' = "idle") =>
          \A i \in DOMAIN records' :
              ~(/\ records'[i].FromVersion = fromVersion
                /\ records'[i].ToVersion = toVersion
                /\ records'[i].IsDeleted = 0)]_vars

\* C19, its case: the second invocation is inside generateUpgradePath for a
\* pair whose archive the first invocation built and then failed to move out
\* of the working directory.
C19_Witness ==
    /\ runs = MaxRuns
    /\ pc = "hashFrom"
    /\ compressedPath \in DOMAIN workArtifacts
    /\ ~HaveVersion(fromVersion, toVersion)


\* What a call of getVersionHashes(version) that finds no cache file leads
\* to, `returned` being the manifest the caller holds afterwards: either
\* generateHashes failed and its error is returned with the cache untouched,
\* or the caller holds the manifest built from the tree, with no error, and
\* the cache file is written or still missing.
MissOutcome(version, returned) ==
    \/ pc' = "idle"
    \/ /\ pc' = "rename"
       /\ genErr' = "EIO"
       /\ hashCache' = hashCache
    \/ /\ pc' \notin {"rename", "idle"}
       /\ genErr' = "nil"
       /\ returned = generateHashes(releaseDir[version])
       /\ hashCache' \in {hashCache, Put(hashCache, version, Marshal(returned))}

\* C20: on a cache miss getVersionHashes returns the manifest it built, with
\* no error, whether or not the cache file could be written; the only error
\* it returns then is that of building the manifest.
C20_MissIsNotAnError ==
    [][/\ (pc = "hashFrom" /\ fromVersion # toVersion
              /\ fromVersion \notin DOMAIN hashCache)
           => MissOutcome(fromVersion, fromVersionHashes')
       /\ (pc = "hashTo" /\ toVersion \notin DOMAIN hashCache)
           => MissOutcome(toVersion, toVersionHashes')]_vars

\* C20, its case: the manifest of the from version was built and returned
\* and its cache file could not be written.
C20_Witness ==
    /\ pc = "hashTo"
    /\ fromVersion \notin DOMAIN hashCache
    /\ fromVersionHashes = generateHashes(releaseDir[fromVersion])
    /\ fromVersionHashes # EmptyMap


\* C21: a pair whose lookup finds no record is not skipped, a pair enters
\* generateUpgradePath only when the store holds no record of it, and when
\* the lookup fails with another error Run returns that error from the loop
\* position at once, leaving the disk and the store as they were.
C21_LookupOutcomes ==
    [][/\ (InLoop /\ ~StrGE(versions[idx], newVersion) /\ pc' = "hashFrom")
           => ~HaveVersion(versions[idx], newVersion)
       /\ (/\ InLoop
           /\ ~StrGE(versions[idx], newVersion)
           /\ ~HaveVersion(versions[idx], newVersion))
           => ~(pc' = "loop" /\ idx' = idx + 1)
       /\ (result # "query.Error" /\ result' = "query.Error")
           => /\ InLoop
              /\ ~StrGE(versions[idx], newVersion)
              /\ pc' = "idle"
              /\ records' = records
              /\ diskVars' = diskVars]_vars

\* C21, its case: Run returned the error of a lookup that came after a pair
\* of the same run was processed and recorded.
C21_Witness ==
    /\ pc = "idle"
    /\ result = "query.Error"
    /\ \E i \in DOMAIN records : records[i].DateCreated = runs


\* Numeric version strings: every string of one or two of these digits, and
\* two of three.
Digits == {"0", "1", "2", "9"}
NumericVersions ==
    {<<a>> : a \in Digits} \cup {<<a, b>> : a, b \in Digits}
        \cup {<<"1", "0", "1">>, <<"0", "1", "2">>}

\* C22: the artifact os.Rename moves into packageDir has the base name
\* "{fromVersion}-{toVersion}.tar.gz" of its pair, no other pair of numeric
\* versions has that name, and the artifact of every other pair in
\* packageDir is still there, unchanged.
C22_ArtifactNamePerPair ==
    [][(pc = "rename" /\ pc' = "save") =>
          LET moved == Base(packagePath)
          IN /\ moved = ArtifactName(fromVersion, toVersion)
             /\ \A from \in NumericVersions, to \in NumericVersions :
                   <<from, to>> # <<fromVersion, toVersion>> =>
                       LET other == ArtifactName(from, to)
                       IN /\ other # moved
                          /\ other \in DOMAIN packageDir =>
                                /\ other \in DOMAIN packageDir'
                                /\ packageDir'[other] = packageDir[other]]_vars

\* C22, its case: the artifact of a pair was moved into a packageDir that
\* holds the artifact of another pair, with another content.
C22_Witness ==
    /\ pc = "save"
    /\ ArtifactName(fromVersion, toVersion) \in DOMAIN packageDir
    /\ \E name \in DOMAIN packageDir :
          /\ name # ArtifactName(fromVersion, toVersion)
          /\ packageDir[name] # packageDir[ArtifactName(fromVersion, toVersion)]


\* C23: two records of different (FromVersion, ToVersion) pairs never carry
\* the same UpdateURL.
C23_LocatorPerPair ==
    \A i, j \in DOMAIN records :
        <<records[i].FromVersion, records[i].ToVersion>>
            # <<records[j].FromVersion, records[j].ToVersion>>
        => records[i].UpdateURL # records[j].UpdateURL

=============================================================================
